---- MODULE Spec2Model ----
(***************************************************************************)
(* A model of github.com/aaronireland/go-chess, package pkg/chess:         *)
(* the 64-bit Bitboard engine (bitboard.go), the coordinate conversions,   *)
(* the piece table (pieces.go) and the Board built on them (board.go).     *)
(*                                                                         *)
(* A Bitboard (Go uint64) is modelled as the set of its set bit indices,   *)
(* a subset of 0..63.  Bitwise operators are set operators, shifts move    *)
(* the indices and drop those leaving 0..63, and + and - are ripple carry  *)
(* and ripple borrow over the 64 bits, so arithmetic wraps modulo 2^64.    *)
(***************************************************************************)
EXTENDS Integers, Sequences, FiniteSets, TLC

\* ------------------------------------------------------------------------
\* uint64 arithmetic
\* ------------------------------------------------------------------------

WordBits == 64

BitIdx == 0..(WordBits - 1)

Pow2(n) == <<1, 2, 4, 8, 16, 32, 64, 128, 256, 512, 1024, 2048, 4096, 8192, 16384, 32768, 65536>>[n + 1]

\* Arithmetic is carried out on the four 16-bit groups of a word.
Radix == Pow2(16)

\* The bits of the 16-bit number v, placed at bit 16*g of the word
Group(v, g) == { 16 * g + j : j \in { n \in 0..15 : (v \div Pow2(n)) % 2 = 1 } }

\* The value of the 16-bit group g of a (group 0 is the least significant)
Limb(a, g) ==
    LET RECURSIVE S(_)
        S(s) == IF s = {} THEN 0
                ELSE LET i == CHOOSE x \in s : TRUE
                     IN Pow2(i - 16 * g) + S(s \ {i})
    IN S({ i \in a : i \div 16 = g })

\* A uint64 literal, written as its four 16-bit groups, most significant
\* first: Hex(<<\H1e22, \H2212, \H0e0a, \H1222>>) is 0x1e2222120e0a1222.
Hex(w) == Group(w[1], 3) \cup Group(w[2], 2) \cup Group(w[3], 1) \cup Group(w[4], 0)

Zero == {}

One == {0}

And(a, b) == a \cap b

Or(a, b) == a \cup b

Xor(a, b) == (a \ b) \cup (b \ a)

Not(a) == BitIdx \ a

Shl(a, n) == { i + n : i \in a } \cap BitIdx

Shr(a, n) == { i - n : i \in a } \cap BitIdx

\* a + b modulo 2^64: the carry runs through the groups and out of the top
Add(a, b) ==
    LET s0 == Limb(a, 0) + Limb(b, 0)
        s1 == Limb(a, 1) + Limb(b, 1) + (s0 \div Radix)
        s2 == Limb(a, 2) + Limb(b, 2) + (s1 \div Radix)
        s3 == Limb(a, 3) + Limb(b, 3) + (s2 \div Radix)
    IN Hex(<<s3 % Radix, s2 % Radix, s1 % Radix, s0 % Radix>>)

\* a - b modulo 2^64: the borrow runs through the groups and out of the top
Sub(a, b) ==
    LET d0 == Limb(a, 0) - Limb(b, 0)
        d1 == Limb(a, 1) - Limb(b, 1) - (IF d0 < 0 THEN 1 ELSE 0)
        d2 == Limb(a, 2) - Limb(b, 2) - (IF d1 < 0 THEN 1 ELSE 0)
        d3 == Limb(a, 3) - Limb(b, 3) - (IF d2 < 0 THEN 1 ELSE 0)
    IN Hex(<<(d3 + Radix) % Radix, (d2 + Radix) % Radix, (d1 + Radix) % Radix, (d0 + Radix) % Radix>>)

\* n * a modulo 2^64, for the small constant factors n the code uses
Mul(n, a) ==
    LET p0 == n * Limb(a, 0)
        p1 == n * Limb(a, 1) + (p0 \div Radix)
        p2 == n * Limb(a, 2) + (p1 \div Radix)
        p3 == n * Limb(a, 3) + (p2 \div Radix)
    IN Hex(<<p3 % Radix, p2 % Radix, p1 % Radix, p0 % Radix>>)

\* int(a), for a value below 2^16
ToInt(a) == Limb(a, 0)

\* ------------------------------------------------------------------------
\* bitboard.go
\* ------------------------------------------------------------------------

\* SetBit: mask = 1 << index; *b |= mask
SetBit(b, index) == Or(b, Shl(One, index))

ClearBitNoComplement(b, index) == And(b, Shl(One, index))

\* ClearBit: mask = ^(1 << index); *b &= mask
ClearBit(b, index) == And(b, Not(Shl(One, index)))

\* ToggleBit: mask = 1 << index; *b ^= mask
ToggleBit(b, index) == Xor(b, Shl(One, index))

\* GetBit: int((b >> index) & 1)
GetBit(b, index) == ToInt(And(Shr(b, index), One))

\* IsBitSet: (b & (1 << index)) != 0
IsBitSet(b, index) == And(b, Shl(One, index)) # Zero

\* Union: OR of the boards of a list (a function on 0..n-1), 0 for none
Union(bitmaps) ==
    LET n == Cardinality(DOMAIN bitmaps)
        RECURSIVE U(_)
        \* allmaps after the first k boards of the range loop
        U(k) == IF k = 0 THEN Zero ELSE Or(U(k - 1), bitmaps[k - 1])
    IN U(n)

mask1 == Hex(<<\H5555, \H5555, \H5555, \H5555>>)

mask2 == Hex(<<\H3333, \H3333, \H3333, \H3333>>)

mask4 == Hex(<<\H0f0f, \H0f0f, \H0f0f, \H0f0f>>)

PopulationNoByteFold(b) ==
    LET b1 == Sub(b, And(Shr(b, 1), mask1))
        b2 == Add(And(b1, mask2), And(Shr(b1, 2), mask2))
        b3 == And(Add(b2, Shr(b2, 4)), mask4)
        b5 == Add(b3, Shr(b3, 16))
        b6 == Add(b5, Shr(b5, 32))
    IN ToInt(And(b6, Hex(<<0, 0, 0, \H7f>>)))

\* Population: the SWAR Hamming weight
Population(b) ==
    LET b1 == Sub(b, And(Shr(b, 1), mask1))
        b2 == Add(And(b1, mask2), And(Shr(b1, 2), mask2))
        b3 == And(Add(b2, Shr(b2, 4)), mask4)
        b4 == Add(b3, Shr(b3, 8))
        b5 == Add(b4, Shr(b4, 16))
        b6 == Add(b5, Shr(b5, 32))
    IN ToInt(And(b6, Hex(<<0, 0, 0, \H7f>>)))

FlipVerticalNoWordSwap(b) ==
    LET k1 == Hex(<<\H00FF, \H00FF, \H00FF, \H00FF>>)
        k2 == Hex(<<\H0000, \HFFFF, \H0000, \HFFFF>>)
        b1 == Or(And(Shr(b, 8), k1), Shl(And(b, k1), 8))
        b2 == Or(And(Shr(b1, 16), k2), Shl(And(b1, k2), 16))
    IN b2

FlipVertical(b) ==
    LET k1 == Hex(<<\H00FF, \H00FF, \H00FF, \H00FF>>)
        k2 == Hex(<<\H0000, \HFFFF, \H0000, \HFFFF>>)
        b1 == Or(And(Shr(b, 8), k1), Shl(And(b, k1), 8))
        b2 == Or(And(Shr(b1, 16), k2), Shl(And(b1, k2), 16))
        b3 == Or(Shr(b2, 32), Shl(b2, 32))
    IN b3

FlipHorizontal(b) ==
    LET k1 == Hex(<<\H5555, \H5555, \H5555, \H5555>>)
        k2 == Hex(<<\H3333, \H3333, \H3333, \H3333>>)
        k4 == Hex(<<\H0f0f, \H0f0f, \H0f0f, \H0f0f>>)
        b1 == Add(And(Shr(b, 1), k1), Mul(2, And(b, k1)))
        b2 == Add(And(Shr(b1, 2), k2), Mul(4, And(b1, k2)))
        b3 == Add(And(Shr(b2, 4), k4), Mul(16, And(b2, k4)))
    IN b3

FlipDiagonalA1H8WrongMask(b) ==
    LET k1 == Hex(<<\H5500, \H5500, \H5500, \H5500>>)
        k2 == Hex(<<\H3333, \H0000, \H3333, \H0000>>)
        k4 == Hex(<<\H0f0f, \H0f0f, \H0f0f, \H0000>>)
        t1 == And(k4, Xor(b, Shl(b, 28)))
        b1 == Xor(b, Xor(t1, Shr(t1, 28)))
        t2 == And(k2, Xor(b1, Shl(b1, 14)))
        b2 == Xor(b1, Xor(t2, Shr(t2, 14)))
        t3 == And(k1, Xor(b2, Shl(b2, 7)))
        b3 == Xor(b2, Xor(t3, Shr(t3, 7)))
    IN b3

FlipDiagonalA1H8(b) ==
    LET k1 == Hex(<<\H5500, \H5500, \H5500, \H5500>>)
        k2 == Hex(<<\H3333, \H0000, \H3333, \H0000>>)
        k4 == Hex(<<\H0f0f, \H0f0f, \H0000, \H0000>>)
        t1 == And(k4, Xor(b, Shl(b, 28)))
        b1 == Xor(b, Xor(t1, Shr(t1, 28)))
        t2 == And(k2, Xor(b1, Shl(b1, 14)))
        b2 == Xor(b1, Xor(t2, Shr(t2, 14)))
        t3 == And(k1, Xor(b2, Shl(b2, 7)))
        b3 == Xor(b2, Xor(t3, Shr(t3, 7)))
    IN b3

FlipDiagonalA8H1(b) ==
    LET k1 == Hex(<<\Haa00, \Haa00, \Haa00, \Haa00>>)
        k2 == Hex(<<\Hcccc, \H0000, \Hcccc, \H0000>>)
        k4 == Hex(<<\Hf0f0, \Hf0f0, \H0f0f, \H0f0f>>)
        t1 == Xor(b, Shl(b, 36))
        b1 == Xor(b, And(k4, Xor(t1, Shr(b, 36))))
        t2 == And(k2, Xor(b1, Shl(b1, 18)))
        b2 == Xor(b1, Xor(t2, Shr(t2, 18)))
        t3 == And(k1, Xor(b2, Shl(b2, 9)))
        b3 == Xor(b2, Xor(t3, Shr(t3, 9)))
    IN b3

Rotate180(b) == FlipHorizontal(FlipVertical(b))

Rotate90(b) == FlipVertical(FlipDiagonalA1H8(b))

\* Rotate270 with the two flips in the order Rotate90 applies them
Rotate270FlipsSwapped(b) == FlipVertical(FlipDiagonalA1H8(b))

Rotate270(b) == FlipDiagonalA1H8(FlipVertical(b))

\* bitboard_test.go: the boards the tests work on
emptyBoard == Hex(<<\H0000, \H0000, \H0000, \H0000>>)

fullBoard == Hex(<<\Hffff, \Hffff, \Hffff, \Hffff>>)

darkSquares == Hex(<<\Haa55, \Haa55, \Haa55, \Haa55>>)

lightSquares == Hex(<<\H55aa, \H55aa, \H55aa, \H55aa>>)

letterR == Hex(<<\H1e22, \H2212, \H0e0a, \H1222>>)

rA1H8 == Hex(<<\H0000, \H6192, \H8c88, \Hff00>>)

rA8H1 == Hex(<<\H00ff, \H1131, \H4986, \H0000>>)

rVertical == Hex(<<\H2212, \H0a0e, \H1222, \H221e>>)

rHorizontal == Hex(<<\H7844, \H4448, \H7050, \H4844>>)

\* ------------------------------------------------------------------------
\* Go slices: a slice value is a function on 0..n-1, the nil slice the empty one
\* ------------------------------------------------------------------------

\* A pointer or an error is <<>> when nil and <<v>> when it refers to v
Nil == <<>>

len(s) == Cardinality(DOMAIN s)

Slice(seq) == [i \in 0..(Len(seq) - 1) |-> seq[i + 1]]

\* ------------------------------------------------------------------------
\* pieces.go
\* ------------------------------------------------------------------------

WHITE == 0

BLACK == 1

PAWN == 0

BISHOP == 66

KNIGHT == 78

ROOK == 82

QUEEN == 81

KING == 75

pawn(c, i) == [Color |-> c, Symbol |-> PAWN, Value |-> 1, Index |-> i]

bishop(c, i) == [Color |-> c, Symbol |-> BISHOP, Value |-> 3, Index |-> i]

knight(c, i) == [Color |-> c, Symbol |-> KNIGHT, Value |-> 3, Index |-> i]

rook(c, i) == [Color |-> c, Symbol |-> ROOK, Value |-> 5, Index |-> i]

queen(c, i) == [Color |-> c, Symbol |-> QUEEN, Value |-> 9, Index |-> i]

king(c, i) == [Color |-> c, Symbol |-> KING, Value |-> 0, Index |-> i]

WhitePawn == pawn(WHITE, 0)

WhiteBishop == bishop(WHITE, 1)

WhiteKnight == knight(WHITE, 2)

WhiteRook == rook(WHITE, 3)

WhiteQueen == queen(WHITE, 4)

WhiteKing == king(WHITE, 5)

BlackPawn == pawn(BLACK, 6)

BlackBishop == bishop(BLACK, 7)

BlackKnight == knight(BLACK, 8)

BlackRook == rook(BLACK, 9)

BlackQueen == queen(BLACK, 10)

BlackKing == king(BLACK, 11)

\* The composite literal of var Pieces, before init() runs
PiecesLiteral == <<WhiteRook, WhiteKnight, WhiteBishop, WhiteQueen, WhiteKing, WhitePawn, BlackRook, BlackKnight, BlackBishop, BlackQueen, BlackKing, BlackPawn>>

\* sort.SliceStable(Pieces, less) with less(i, j) = Pieces[i].Index < Pieces[j].Index:
\* a stable insertion sort, an element going behind those that are not greater
SortByIndex(seq) ==
    LET Insert(sorted, p) ==
            LET k == Cardinality({ j \in 1..Len(sorted) : ~(p.Index < sorted[j].Index) })
            IN SubSeq(sorted, 1, k) \o <<p>> \o SubSeq(sorted, k + 1, Len(sorted))
        RECURSIVE Sort(_)
        Sort(n) == IF n = 0 THEN <<>> ELSE Insert(Sort(n - 1), seq[n])
    IN Sort(Len(seq))

\* var Pieces once init() has run, which is before any caller can use the package
Pieces == Slice(SortByIndex(PiecesLiteral))

SameType(p, p2) == p.Symbol = p2.Symbol

Equals(p, p2) == p.Color = p2.Color /\ SameType(p, p2)

\* ------------------------------------------------------------------------
\* Coordinate conversions.  A Go string is the sequence of its characters.
\* ------------------------------------------------------------------------

RANKS == 8

FILES == 8

symbols == <<"a", "b", "c", "d", "e", "f", "g", "h">>

digits == <<"0", "1", "2", "3", "4", "5", "6", "7", "8", "9">>

\* strconv.Atoi of a one-character string, its error dropped: 0 for a non-digit
Atoi(c) == IF \E d \in 0..9 : digits[d + 1] = c THEN CHOOSE d \in 0..9 : digits[d + 1] = c ELSE 0

\* The decimal text of n >= 0, as %v prints an int
Itoa(n) ==
    LET RECURSIVE D(_)
        D(k) == IF k < 10 THEN <<digits[k + 1]>> ELSE D(k \div 10) \o <<digits[(k % 10) + 1]>>
    IN D(n)

CartesianToBit(x, y) == y * FILES + x

BitToCartesian(p) == <<p % FILES, p \div FILES>>

\* AlgebraicToCartesian returning the rank number itself, counted from 1
AlgebraicToCartesianRankFromOne(p) ==
    LET RECURSIVE X(_)
        X(k) == IF k = 0 THEN 0
                ELSE IF p[1] = symbols[k] THEN k - 1 ELSE X(k - 1)
    IN <<X(Len(symbols)), Atoi(p[2])>>

\* x is the index of the last symbol equal to p[0], 0 when there is none
AlgebraicToCartesian(p) ==
    LET RECURSIVE X(_)
        \* x after the first k symbols of the range loop
        X(k) == IF k = 0 THEN 0
                ELSE IF p[1] = symbols[k] THEN k - 1 ELSE X(k - 1)
    IN <<X(Len(symbols)), Atoi(p[2]) - 1>>

AlgebraicToBit(p) == CartesianToBit(AlgebraicToCartesian(p)[1], AlgebraicToCartesian(p)[2])

CartesianToAlgebraic(x, y) == <<symbols[x + 1]>> \o Itoa(y + 1)

BitToAlgebraic(p) == CartesianToAlgebraic(BitToCartesian(p)[1], BitToCartesian(p)[2])

\* ------------------------------------------------------------------------
\* board.go
\* ------------------------------------------------------------------------

initWhiteRooks == Hex(<<\H0000, \H0000, \H0000, \H0081>>)

initWhiteKnights == Hex(<<\H0000, \H0000, \H0000, \H0042>>)

initWhiteBishops == Hex(<<\H0000, \H0000, \H0000, \H0024>>)

initWhiteQueen == Hex(<<\H0000, \H0000, \H0000, \H0008>>)

initWhiteKing == Hex(<<\H0000, \H0000, \H0000, \H0010>>)

initWhitePawns == Hex(<<\H0000, \H0000, \H0000, \Hff00>>)

initBlackRooks == Hex(<<\H8100, \H0000, \H0000, \H0000>>)

initBlackKnights == Hex(<<\H4200, \H0000, \H0000, \H0000>>)

initBlackBishops == Hex(<<\H2400, \H0000, \H0000, \H0000>>)

initBlackQueen == Hex(<<\H0800, \H0000, \H0000, \H0000>>)

initBlackKing == Hex(<<\H1000, \H0000, \H0000, \H0000>>)

initBlackPawns == Hex(<<\H00ff, \H0000, \H0000, \H0000>>)

\* The slice literal NewBoard builds when it is given no bitboards
StartPositions == Slice(<<initWhiteRooks, initWhiteKnights, initWhiteBishops, initWhiteQueen, initWhiteKing, initWhitePawns, initBlackRooks, initBlackKnights, initBlackBishops, initBlackQueen, initBlackKing, initBlackPawns>>)

\* The world a Board lives in is w = [mem, board]: mem holds the backing arrays
\* of the slices (the caller's and the Board's own), board is the Board struct,
\* whose Positions field names the array its slice points into.

NewBoardAliasing(m) ==
    LET positions == m.caller
    IN IF len(positions) > 0 /\ len(positions) # len(Pieces)
       THEN [mem |-> m, board |-> Nil, err |-> <<[expected |-> 0, received |-> len(positions)]>>]
       ELSE IF len(positions) > 0
       THEN [mem |-> m, err |-> Nil,
             board |-> <<[Positions |-> "caller", Pieces |-> Pieces, Occupied |-> Union(m.caller)]>>]
       ELSE LET m1 == [m EXCEPT !.board = StartPositions]
            IN [mem |-> m1, err |-> Nil,
                board |-> <<[Positions |-> "board", Pieces |-> Pieces, Occupied |-> Union(m1.board)]>>]

\* NewBoard(positions...), the caller's bitboards being m.caller: the Board
\* pointer, the error and the memory it leaves
NewBoard(m) ==
    LET positions == m.caller
        \* board := Board{Pieces: Pieces} leaves board.Positions the nil slice
        Positions0 == <<>>
    IN IF len(positions) > 0 /\ len(positions) # len(Pieces)
       THEN [mem |-> m, board |-> Nil,
             err |-> <<[expected |-> len(Positions0), received |-> len(positions)]>>]
       ELSE IF len(positions) > 0
       THEN LET m1 == [m EXCEPT !.board = positions]
            IN [mem |-> m1, err |-> Nil,
                board |-> <<[Positions |-> "board", Pieces |-> Pieces, Occupied |-> Union(m1.board)]>>]
       ELSE LET m1 == [m EXCEPT !.board = StartPositions]
            IN [mem |-> m1, err |-> Nil,
                board |-> <<[Positions |-> "board", Pieces |-> Pieces, Occupied |-> Union(m1.board)]>>]

\* The Bitboards of b.Positions
PositionsOf(w) == w.mem[w.board.Positions]

GetSquareLastMatch(w, index) ==
    LET RECURSIVE Scan(_)
        Scan(i) == IF i < 0 THEN [occupied |-> FALSE, piece |-> Nil]
                   ELSE IF GetBit(PositionsOf(w)[i], index) # 0
                   THEN [occupied |-> TRUE, piece |-> <<[slot |-> i, kind |-> w.board.Pieces[i]]>>]
                   ELSE Scan(i - 1)
    IN IF GetBit(w.board.Occupied, index) # 0 THEN Scan(len(PositionsOf(w)) - 1)
       ELSE [occupied |-> FALSE, piece |-> Nil]

\* GetSquare: (occupied, piece); piece is nil or &b.Pieces[slot], pointing at kind
GetSquare(w, index) ==
    LET RECURSIVE Scan(_)
        Scan(i) == IF ~(i < len(PositionsOf(w))) THEN [occupied |-> FALSE, piece |-> Nil]
                   ELSE IF GetBit(PositionsOf(w)[i], index) # 0
                   THEN [occupied |-> TRUE, piece |-> <<[slot |-> i, kind |-> w.board.Pieces[i]]>>]
                   ELSE Scan(i + 1)
    IN IF GetBit(w.board.Occupied, index) # 0 THEN Scan(0)
       ELSE [occupied |-> FALSE, piece |-> Nil]

PlacePiece(w, piece, position) ==
    [mem |-> [w.mem EXCEPT ![w.board.Positions][piece] = SetBit(@, position)],
     board |-> [w.board EXCEPT !.Occupied = SetBit(@, position)]]

\* RemovePiece clearing the bit of the kind's board and leaving Occupied alone
RemovePieceBoardOnly(w, piece, position) ==
    [mem |-> [w.mem EXCEPT ![w.board.Positions][piece] = ClearBit(@, position)],
     board |-> w.board]

RemovePiece(w, piece, position) ==
    [mem |-> [w.mem EXCEPT ![w.board.Positions][piece] = ClearBit(@, position)],
     board |-> [w.board EXCEPT !.Occupied = ClearBit(@, position)]]

MovePiece(w, piece, from, to) == PlacePiece(RemovePiece(w, piece, from), piece, to)

\* MovePiece with the statements of PlacePiece run before those of RemovePiece
MovePieceStatementPlaceFirst(w, piece, from, to, n) ==
    IF n = 1 THEN [w EXCEPT !.mem[w.board.Positions][piece] = SetBit(@, to)]
    ELSE IF n = 2 THEN [w EXCEPT !.board.Occupied = SetBit(@, to)]
    ELSE IF n = 3 THEN [w EXCEPT !.mem[w.board.Positions][piece] = ClearBit(@, from)]
    ELSE [w EXCEPT !.board.Occupied = ClearBit(@, from)]

\* The n-th of the four statements MovePiece(piece, from, to) executes: the
\* two of RemovePiece(piece, from), then the two of PlacePiece(piece, to)
MovePieceStatement(w, piece, from, to, n) ==
    IF n = 1 THEN [w EXCEPT !.mem[w.board.Positions][piece] = ClearBit(@, from)]
    ELSE IF n = 2 THEN [w EXCEPT !.board.Occupied = ClearBit(@, from)]
    ELSE IF n = 3 THEN [w EXCEPT !.mem[w.board.Positions][piece] = SetBit(@, to)]
    ELSE [w EXCEPT !.board.Occupied = SetBit(@, to)]

PlacePieceAlgebraic(w, piece, position) == PlacePiece(w, piece, AlgebraicToBit(position))

RemovePieceAlgebraic(w, piece, position) == RemovePiece(w, piece, AlgebraicToBit(position))

MovePieceAlgebraic(w, piece, from, to) == PlacePieceAlgebraic(RemovePieceAlgebraic(w, piece, from), piece, to)

PlacePieceCartesian(w, piece, x, y) == PlacePiece(w, piece, CartesianToBit(x, y))

RemovePieceCartesian(w, piece, x, y) == RemovePiece(w, piece, CartesianToBit(x, y))

\* MovePieceCartesian placing at the target before removing at the origin
MovePieceCartesianPlaceFirst(w, piece, fromX, fromY, toX, toY) == RemovePiece(PlacePiece(w, piece, CartesianToBit(toX, toY)), piece, CartesianToBit(fromX, fromY))

MovePieceCartesian(w, piece, fromX, fromY, toX, toY) == PlacePiece(RemovePiece(w, piece, CartesianToBit(fromX, fromY)), piece, CartesianToBit(toX, toY))

\* ------------------------------------------------------------------------
\* State
\* ------------------------------------------------------------------------

VARIABLES
    pc,      \* "start": no Board asked for yet; "ready": NewBoard returned a Board;
             \* "failed": NewBoard returned an error; "exit": main has returned
    given,   \* the bitboards the caller built its list from, as it handed them to NewBoard
    mem,     \* the backing arrays: mem.caller of the caller's bitboards, mem.board of the Board's
    board,   \* the *Board NewBoard returned
    err,     \* the error NewBoard returned: the two numbers of its message
    nops,    \* the number of place, remove and move calls made on the Board
    got,     \* what the latest GetSquare call returned, and for which index
    input,   \* the Bitboard a sequence of Bitboard calls started from
    index,   \* the bit index the Bitboard calls are made with
    bits,    \* the Bitboard the calls have produced
    trace,   \* the names of the Bitboard or conversion calls made, in order
    count,   \* what the latest Population call returned
    coord,   \* what the latest coordinate conversion returned
    call,    \* the latest Cartesian or algebraic call made on the Board: its name and arguments
    mover,   \* a MovePiece call in progress: its arguments and the statements it has executed
    reader   \* a GetSquare call in progress beside it: its index and its copy of the Board

vars == <<pc, given, mem, board, err, nops, got, input, index, bits, trace, count, coord, call, mover, reader>>

boardVars == <<pc, given, mem, board, err, nops, got, call, mover, reader>>

bitVars == <<input, index, bits, trace, count, coord>>

\* ------------------------------------------------------------------------
\* Bounds and inputs
\* ------------------------------------------------------------------------

\* The longest list of bitboards a caller hands to NewBoard
MaxSupplied == 13

\* The number of place, remove and move calls made on one Board
MaxOps == 2

\* The number of SetBit, ClearBit and ToggleBit calls made in a row
MaxBitOps == 3

\* The number of flips, rotations and Population calls made in a row
MaxTransforms == 2

\* The number of rotations applied in a row to one bitboard
MaxRotations == 4

\* The number of MovePiece calls, and of GetSquare calls beside them
MaxMoves == 1

MaxReads == 1

\* The number of Cartesian and algebraic calls made on one Board
MaxVariantCalls == 2

\* The number of coordinate conversions applied in a row to one bit index
MaxConversions == 2

Kinds == DOMAIN Pieces

\* The piece indices and squares the place, remove and move calls are made with
TestKinds == {0, 5, 6}

TestSquares == {0, 12, 28, 63}

EmptyBoards(n) == [i \in 0..(n - 1) |-> emptyBoard]

\* TestGetSquare: only the white rooks' starting squares, in slot 0
RooksOnly == [EmptyBoards(12) EXCEPT ![0] = initWhiteRooks]

\* Two kinds on one square, which the Board does not forbid
Shared == [EmptyBoards(12) EXCEPT ![2] = SetBit(emptyBoard, 28), ![6] = SetBit(SetBit(emptyBoard, 28), 0)]

SuppliedLists == { EmptyBoards(n) : n \in 0..MaxSupplied } \cup {RooksOnly, Shared}

\* ------------------------------------------------------------------------
\* The Board: NewBoard, then place, remove, move and GetSquare calls
\* ------------------------------------------------------------------------

World == [mem |-> mem, board |-> board[1]]

Init ==
    /\ pc = "start"
    /\ given \in SuppliedLists
    /\ mem = [caller |-> given, board |-> <<>>]
    /\ board = Nil
    /\ err = Nil
    /\ nops = 0
    /\ got = Nil
    /\ call = Nil
    /\ mover = Nil
    /\ reader = Nil
    /\ input = emptyBoard
    /\ index = 0
    /\ bits = emptyBoard
    /\ trace = <<>>
    /\ count = Nil
    /\ coord = Nil

NewBoardCall ==
    /\ pc = "start"
    /\ LET r == NewBoard(mem)
       IN /\ mem' = r.mem
          /\ board' = r.board
          /\ err' = r.err
          /\ pc' = IF r.err # Nil THEN "failed" ELSE "ready"
    /\ UNCHANGED <<given, nops, got, call, mover, reader>>
    /\ UNCHANGED bitVars

Mutate(w) ==
    /\ mem' = w.mem
    /\ board' = <<w.board>>
    /\ got' = Nil
    /\ UNCHANGED <<given, err, call, mover, reader>>
    /\ UNCHANGED bitVars

PlacePieceCall(piece, position) ==
    /\ pc = "ready"
    /\ nops < MaxOps
    /\ Mutate(PlacePiece(World, piece, position))
    /\ nops' = nops + 1
    /\ UNCHANGED pc

RemovePieceCall(piece, position) ==
    /\ pc = "ready"
    /\ nops < MaxOps
    /\ Mutate(RemovePiece(World, piece, position))
    /\ nops' = nops + 1
    /\ UNCHANGED pc

MovePieceCall(piece, from, to) ==
    /\ pc = "ready"
    /\ nops < MaxOps
    /\ Mutate(MovePiece(World, piece, from, to))
    /\ nops' = nops + 1
    /\ UNCHANGED pc

GetSquareCall(i) ==
    /\ pc = "ready"
    /\ got' = <<[index |-> i, res |-> GetSquare(World, i)]>>
    /\ UNCHANGED <<pc, given, mem, board, err, nops, call, mover, reader>>
    /\ UNCHANGED bitVars

\* main(): NewBoard(), panic on an error, then the pawn move e2-e4
Main ==
    /\ pc = "start"
    /\ len(mem.caller) = 0
    /\ LET r == NewBoard(mem)
       IN IF r.err # Nil
          THEN /\ pc' = "panic"
               /\ err' = r.err
               /\ UNCHANGED <<given, mem, board, nops, got, call, mover, reader>>
               /\ UNCHANGED bitVars
          ELSE /\ Mutate(MovePieceAlgebraic([mem |-> r.mem, board |-> r.board[1]], WhitePawn.Index, <<"e", "2">>, <<"e", "4">>))
               /\ pc' = "exit"
               /\ nops' = nops + 1

Next ==
    \/ NewBoardCall
    \/ \E piece \in TestKinds, position \in TestSquares : PlacePieceCall(piece, position)
    \/ \E piece \in TestKinds, position \in TestSquares : RemovePieceCall(piece, position)
    \/ \E piece \in TestKinds, from \in TestSquares, to \in TestSquares : MovePieceCall(piece, from, to)
    \/ \E i \in TestSquares : GetSquareCall(i)
    \/ Main

Spec == Init /\ [][Next]_vars

\* ------------------------------------------------------------------------
\* Bitboard bit calls: SetBit, ClearBit and ToggleBit at one index, as the
\* loop body of TestBitboardBitOperations makes them
\* ------------------------------------------------------------------------

BoardIdle ==
    /\ pc = "start"
    /\ given = <<>>
    /\ mem = [caller |-> <<>>, board |-> <<>>]
    /\ board = Nil
    /\ err = Nil
    /\ nops = 0
    /\ got = Nil
    /\ call = Nil
    /\ mover = Nil
    /\ reader = Nil

BitOpInputs == {emptyBoard, fullBoard, letterR}

InitBitOps ==
    /\ BoardIdle
    /\ input \in BitOpInputs
    /\ index \in BitIdx
    /\ bits = input
    /\ trace = <<>>
    /\ count = Nil
    /\ coord = Nil

BitCall(name, b) ==
    /\ bits' = b
    /\ trace' = Append(trace, name)
    /\ UNCHANGED <<input, index, count, coord>>
    /\ UNCHANGED boardVars

SetBitCall ==
    /\ Len(trace) < MaxBitOps
    /\ BitCall("SetBit", SetBit(bits, index))

ClearBitCall ==
    /\ Len(trace) < MaxBitOps
    /\ BitCall("ClearBit", ClearBit(bits, index))

ToggleBitCall ==
    /\ Len(trace) < MaxBitOps
    /\ BitCall("ToggleBit", ToggleBit(bits, index))

NextBitOps ==
    \/ SetBitCall
    \/ ClearBitCall
    \/ ToggleBitCall

SpecBitOps == InitBitOps /\ [][NextBitOps]_vars

\* ------------------------------------------------------------------------
\* Bitboard transforms and Population, applied to a range of boards
\* ------------------------------------------------------------------------

\* One bit set, as TestBitboardBitOperations builds allBoards
Singletons == { SetBit(emptyBoard, i) : i \in BitIdx }

\* One bit clear
CoSingletons == { ClearBit(fullBoard, i) : i \in BitIdx }

\* The low bits set up to some index
LowRuns == { Not(Shl(fullBoard, i)) : i \in BitIdx }

Fixtures == {emptyBoard, fullBoard, darkSquares, lightSquares, letterR} \cup { StartPositions[k] : k \in DOMAIN StartPositions } \cup {Union(StartPositions)}

\* The ranks and the files
Lines == { Shl(Hex(<<0, 0, 0, \H00ff>>), 8 * r) : r \in 0..7 } \cup { Shl(Hex(<<\H0101, \H0101, \H0101, \H0101>>), f) : f \in 0..7 }

\* Two bits set, one of them a corner or a centre square
Pairs == { SetBit(SetBit(emptyBoard, i), j) : i \in {0, 27, 63}, j \in BitIdx }

TransformInputs == Fixtures \cup Singletons \cup CoSingletons \cup LowRuns \cup Lines \cup Pairs

InitTransforms ==
    /\ BoardIdle
    /\ input \in TransformInputs
    /\ index = 0
    /\ bits = input
    /\ trace = <<>>
    /\ count = Nil
    /\ coord = Nil

Transform(name, b) ==
    /\ Len(trace) < MaxTransforms
    /\ bits' = b
    /\ trace' = Append(trace, name)
    /\ count' = Nil
    /\ UNCHANGED <<input, index, coord>>
    /\ UNCHANGED boardVars

FlipVerticalCall == Transform("FlipVertical", FlipVertical(bits))

FlipHorizontalCall == Transform("FlipHorizontal", FlipHorizontal(bits))

FlipDiagonalA1H8Call == Transform("FlipDiagonalA1H8", FlipDiagonalA1H8(bits))

FlipDiagonalA8H1Call == Transform("FlipDiagonalA8H1", FlipDiagonalA8H1(bits))

Rotate180Call == Transform("Rotate180", Rotate180(bits))

Rotate90Call == Transform("Rotate90", Rotate90(bits))

Rotate270Call == Transform("Rotate270", Rotate270(bits))

PopulationCall ==
    /\ Len(trace) < MaxTransforms
    /\ count' = <<Population(bits)>>
    /\ trace' = Append(trace, "Population")
    /\ UNCHANGED <<input, index, bits, coord>>
    /\ UNCHANGED boardVars

NextTransforms ==
    \/ FlipVerticalCall
    \/ FlipHorizontalCall
    \/ FlipDiagonalA1H8Call
    \/ FlipDiagonalA8H1Call
    \/ Rotate180Call
    \/ Rotate90Call
    \/ Rotate270Call
    \/ PopulationCall

SpecTransforms == InitTransforms /\ [][NextTransforms]_vars

\* ------------------------------------------------------------------------
\* The Cartesian and algebraic calls (SpecVariants): NewBoard, then up to
\* MaxVariantCalls calls of the six variants of place, remove and move, on the
\* coordinates of the sample squares
\* ------------------------------------------------------------------------

\* The boards the calls are made on: the sixth and the seventh
VariantKinds == {5, 6}

\* The Cartesian coordinates and the algebraic names of the sample squares
TestPoints == { BitToCartesian(s) : s \in TestSquares }

TestNames == { BitToAlgebraic(s) : s \in TestSquares }

\* A call named name with the arguments piece and args leaves the Board as w
VariantCall(name, piece, args, w) ==
    /\ pc = "ready"
    /\ nops < MaxVariantCalls
    /\ mem' = w.mem
    /\ board' = <<w.board>>
    /\ got' = Nil
    /\ call' = <<[name |-> name, piece |-> piece, args |-> args]>>
    /\ nops' = nops + 1
    /\ UNCHANGED <<pc, given, err, mover, reader>>
    /\ UNCHANGED bitVars

PlacePieceAlgebraicCall(piece, position) ==
    VariantCall("PlacePieceAlgebraic", piece, <<position>>, PlacePieceAlgebraic(World, piece, position))

RemovePieceAlgebraicCall(piece, position) ==
    VariantCall("RemovePieceAlgebraic", piece, <<position>>, RemovePieceAlgebraic(World, piece, position))

MovePieceAlgebraicCall(piece, from, to) ==
    VariantCall("MovePieceAlgebraic", piece, <<from, to>>, MovePieceAlgebraic(World, piece, from, to))

PlacePieceCartesianCall(piece, x, y) ==
    VariantCall("PlacePieceCartesian", piece, <<<<x, y>>>>, PlacePieceCartesian(World, piece, x, y))

RemovePieceCartesianCall(piece, x, y) ==
    VariantCall("RemovePieceCartesian", piece, <<<<x, y>>>>, RemovePieceCartesian(World, piece, x, y))

MovePieceCartesianCall(piece, fromX, fromY, toX, toY) ==
    VariantCall("MovePieceCartesian", piece, <<<<fromX, fromY>>, <<toX, toY>>>>, MovePieceCartesian(World, piece, fromX, fromY, toX, toY))

NextVariants ==
    \/ NewBoardCall
    \/ \E piece \in VariantKinds, position \in TestNames : PlacePieceAlgebraicCall(piece, position)
    \/ \E piece \in VariantKinds, position \in TestNames : RemovePieceAlgebraicCall(piece, position)
    \/ \E piece \in VariantKinds, from \in TestNames, to \in TestNames : MovePieceAlgebraicCall(piece, from, to)
    \/ \E piece \in VariantKinds, p \in TestPoints : PlacePieceCartesianCall(piece, p[1], p[2])
    \/ \E piece \in VariantKinds, p \in TestPoints : RemovePieceCartesianCall(piece, p[1], p[2])
    \/ \E piece \in VariantKinds, from \in TestPoints, to \in TestPoints : MovePieceCartesianCall(piece, from[1], from[2], to[1], to[2])

SpecVariants == Init /\ [][NextVariants]_vars

\* ------------------------------------------------------------------------
\* A reader beside MovePiece (SpecConcurrent): one caller runs MovePiece a
\* statement at a time while another calls GetSquare on the same Board, with
\* no lock between them. The Board has none, and every word is read and
\* written whole, so a read gives the word as the latest statement left it.
\* ------------------------------------------------------------------------

MovedKinds == {5, 6}

MovedSquares == {12, 28}

\* The number of the latest MovePiece call and of the last statement it executed
Phase == <<nops, IF mover = Nil THEN 0 ELSE mover[1].step>>

\* The number of GetSquare calls that have returned
ReadsMade == IF got = Nil THEN 0 ELSE got[1].reads

\* MovePiece is called: nothing of it has executed yet
MovePieceBegin(piece, from, to) ==
    /\ pc = "ready"
    /\ nops < MaxMoves
    /\ Phase[2] \in {0, 4}
    /\ mover' = <<[piece |-> piece, from |-> from, to |-> to, step |-> 0, before |-> World]>>
    /\ nops' = nops + 1
    /\ UNCHANGED <<pc, given, mem, board, err, got, call, reader>>
    /\ UNCHANGED bitVars

\* The next statement of the MovePiece call in progress
MovePieceStep ==
    /\ mover # Nil
    /\ mover[1].step < 4
    /\ LET m == mover[1]
           w == MovePieceStatement(World, m.piece, m.from, m.to, m.step + 1)
       IN /\ mem' = w.mem
          /\ board' = <<w.board>>
          /\ mover' = <<[m EXCEPT !.step = @ + 1]>>
    /\ UNCHANGED <<pc, given, err, nops, got, call, reader>>
    /\ UNCHANGED bitVars

\* GetSquare is called: its receiver is a copy of the Board, Occupied and the
\* slice headers, made at the call
GetSquareBegin(i) ==
    /\ pc = "ready"
    /\ reader = Nil
    /\ ReadsMade < MaxReads
    /\ reader' = <<[index |-> i, board |-> board[1], began |-> Phase]>>
    /\ UNCHANGED <<pc, given, mem, board, err, nops, got, call, mover>>
    /\ UNCHANGED bitVars

\* GetSquare tests its copy of Occupied, scans the boards in memory and
\* returns. A move writes one of the boards only, so the scan gives what a
\* scan run whole at the moment it reads that board gives.
GetSquareScan ==
    /\ reader # Nil
    /\ LET r == reader[1]
       IN got' = <<[index |-> r.index,
                    res |-> GetSquare([mem |-> mem, board |-> r.board], r.index),
                    began |-> r.began,
                    ended |-> Phase,
                    reads |-> ReadsMade + 1]>>
    /\ reader' = Nil
    /\ UNCHANGED <<pc, given, mem, board, err, nops, call, mover>>
    /\ UNCHANGED bitVars

NextConcurrent ==
    \/ NewBoardCall
    \/ \E piece \in MovedKinds, from \in MovedSquares, to \in MovedSquares : MovePieceBegin(piece, from, to)
    \/ MovePieceStep
    \/ \E i \in MovedSquares : GetSquareBegin(i)
    \/ GetSquareScan

SpecConcurrent == Init /\ [][NextConcurrent]_vars

\* ------------------------------------------------------------------------
\* Rotations in a row (SpecRotations): up to MaxRotations calls of Rotate90,
\* Rotate180 and Rotate270, each on the result of the one before
\* ------------------------------------------------------------------------

InitRotations ==
    /\ BoardIdle
    /\ input \in TransformInputs
    /\ index = 0
    /\ bits = input
    /\ trace = <<>>
    /\ count = Nil
    /\ coord = Nil

Turn(name, b) ==
    /\ Len(trace) < MaxRotations
    /\ bits' = b
    /\ trace' = Append(trace, name)
    /\ UNCHANGED <<input, index, count, coord>>
    /\ UNCHANGED boardVars

Rotate90Turn == Turn("Rotate90", Rotate90(bits))

Rotate180Turn == Turn("Rotate180", Rotate180(bits))

Rotate270Turn == Turn("Rotate270", Rotate270(bits))

NextRotations ==
    \/ Rotate90Turn
    \/ Rotate180Turn
    \/ Rotate270Turn

SpecRotations == InitRotations /\ [][NextRotations]_vars

\* ------------------------------------------------------------------------
\* Coordinate conversions (SpecCoords): a bit index of the board is converted
\* up to MaxConversions times between its three forms, each conversion taking
\* the result of the one before
\* ------------------------------------------------------------------------

InitCoords ==
    /\ BoardIdle
    /\ input = emptyBoard
    /\ index \in BitIdx
    /\ bits = emptyBoard
    /\ trace = <<>>
    /\ count = Nil
    /\ coord = <<[form |-> "bit", val |-> index]>>

Convert(name, from, to, v) ==
    /\ Len(trace) < MaxConversions
    /\ coord[1].form = from
    /\ coord' = <<[form |-> to, val |-> v]>>
    /\ trace' = Append(trace, name)
    /\ UNCHANGED <<input, index, bits, count>>
    /\ UNCHANGED boardVars

BitToCartesianCall ==
    Convert("BitToCartesian", "bit", "cartesian", BitToCartesian(coord[1].val))

CartesianToBitCall ==
    Convert("CartesianToBit", "cartesian", "bit", CartesianToBit(coord[1].val[1], coord[1].val[2]))

BitToAlgebraicCall ==
    Convert("BitToAlgebraic", "bit", "algebraic", BitToAlgebraic(coord[1].val))

AlgebraicToBitCall ==
    Convert("AlgebraicToBit", "algebraic", "bit", AlgebraicToBit(coord[1].val))

AlgebraicToCartesianCall ==
    Convert("AlgebraicToCartesian", "algebraic", "cartesian", AlgebraicToCartesian(coord[1].val))

CartesianToAlgebraicCall ==
    Convert("CartesianToAlgebraic", "cartesian", "algebraic", CartesianToAlgebraic(coord[1].val[1], coord[1].val[2]))

NextCoords ==
    \/ BitToCartesianCall
    \/ CartesianToBitCall
    \/ BitToAlgebraicCall
    \/ AlgebraicToBitCall
    \/ AlgebraicToCartesianCall
    \/ CartesianToAlgebraicCall

SpecCoords == InitCoords /\ [][NextCoords]_vars

\* ------------------------------------------------------------------------
\* Properties of the Board (checked under Spec)
\* ------------------------------------------------------------------------

\* A Board exists: NewBoard returned one (and main may have moved on it)
HasBoard == pc \in {"ready", "exit"}

\* The lowest slot of Positions whose board has bit s set
LowestSlot(w, s) ==
    CHOOSE k \in DOMAIN PositionsOf(w) :
        /\ IsBitSet(PositionsOf(w)[k], s)
        /\ \A j \in DOMAIN PositionsOf(w) : IsBitSet(PositionsOf(w)[j], s) => k <= j

\* The order of the piece kinds the per-kind boards are laid out in: white
\* rook, knight, bishop, queen, king, pawn, then the black ones
KindOrder == Slice(<<WhiteRook, WhiteKnight, WhiteBishop, WhiteQueen, WhiteKing, WhitePawn, BlackRook, BlackKnight, BlackBishop, BlackQueen, BlackKing, BlackPawn>>)

\* The slot of the white pawns' board in that order
WhitePawnSlot == CHOOSE k \in DOMAIN KindOrder : Equals(KindOrder[k], WhitePawn)

\* C1: on a Board NewBoard returned, after any place, remove and move calls,
\* Occupied is the union of the 12 boards of Positions.
C1_OccupiedIsUnion ==
    pc = "ready" => board[1].Occupied = Union(PositionsOf(World))

\* C2: GetSquare on a square set in slot k and in no lower slot reports the
\* k-th kind of the order white rook, knight, bishop, queen, king, pawn, then
\* black; so a1 of the starting position is a white rook and h8 a black rook,
\* and both rook squares of the rooks-only position are white rooks.
C2_SlotKindOrder ==
    pc = "ready" =>
        /\ \A s \in BitIdx :
               GetSquare(World, s).occupied =>
                   Equals(GetSquare(World, s).piece[1].kind, KindOrder[LowestSlot(World, s)])
        /\ (len(given) = 0 /\ nops = 0) =>
               /\ GetSquare(World, 0).occupied
               /\ Equals(GetSquare(World, 0).piece[1].kind, WhiteRook)
               /\ GetSquare(World, 63).occupied
               /\ Equals(GetSquare(World, 63).piece[1].kind, BlackRook)
        /\ (given = RooksOnly /\ nops = 0) =>
               \A s \in {0, 7} :
                   /\ GetSquare(World, s).occupied
                   /\ Equals(GetSquare(World, s).piece[1].kind, WhiteRook)

\* C3: after main's MovePieceAlgebraic(WhitePawn.Index, "e2", "e4") on the
\* starting position, the white pawns' board and Occupied have bit 12 cleared
\* and bit 28 set, and the eleven other boards are as they started.
C3_DriverMovesPawn ==
    pc = "exit" =>
        /\ PositionsOf(World)[WhitePawnSlot] = SetBit(ClearBit(initWhitePawns, 12), 28)
        /\ board[1].Occupied = SetBit(ClearBit(Union(StartPositions), 12), 28)
        /\ \A k \in DOMAIN StartPositions \ {WhitePawnSlot} : PositionsOf(World)[k] = StartPositions[k]

\* C4: NewBoard returns an error and no Board exactly when it is given a
\* number of bitboards other than 0 and 12; given none, a Board in the starting
\* layout, 32 squares occupied; given 12, a Board holding a copy of them, which
\* calls on the Board never write through to the caller's list, Occupied
\* their union (no square for 12 empty boards).
C4_NewBoardResult ==
    /\ pc # "start" =>
          /\ (err # Nil /\ board = Nil) <=> len(given) \notin {0, 12}
          /\ (err = Nil /\ board # Nil) <=> len(given) \in {0, 12}
    /\ mem.caller = given
    /\ (pc = "ready" /\ nops = 0 /\ len(given) = 0) =>
          /\ PositionsOf(World) = StartPositions
          /\ Population(board[1].Occupied) = 32
    /\ (pc = "ready" /\ nops = 0 /\ len(given) = 12) =>
          /\ PositionsOf(World) = given
          /\ board[1].Occupied = Union(given)
          /\ given = EmptyBoards(12) => Population(board[1].Occupied) = 0

\* A Board built from 12 bitboards has been changed and the caller's list has not
C4_Witness ==
    /\ pc = "ready"
    /\ len(given) = 12
    /\ nops > 0
    /\ PositionsOf(World) # given
    /\ mem.caller = given

\* C5: the error of a rejected list of n bitboards reports 12 as the expected
\* count and n as the received count.
C5_ErrorReportsCounts ==
    err # Nil =>
        /\ err[1].expected = 12
        /\ err[1].received = len(given)

\* What C6 says of GetSquare's result r for square s
SquareReport(w, s, r) ==
    /\ r.occupied <=> IsBitSet(w.board.Occupied, s)
    /\ r.occupied =>
          /\ r.piece # Nil
          /\ IsBitSet(PositionsOf(w)[r.piece[1].slot], s)
          /\ \A j \in DOMAIN PositionsOf(w) : IsBitSet(PositionsOf(w)[j], s) => r.piece[1].slot <= j
          /\ r.piece[1].kind = w.board.Pieces[r.piece[1].slot]
    /\ ~r.occupied => r.piece = Nil

\* C6: GetSquare(s) reports occupied exactly when bit s of Occupied is set;
\* then its piece is that of the lowest slot of Positions with bit s set,
\* otherwise it returns no piece; with only squares 0 and 7 of slot 0 set,
\* every other square is reported unoccupied.
C6_GetSquareReport ==
    HasBoard =>
        /\ \A s \in BitIdx : SquareReport(World, s, GetSquare(World, s))
        /\ got # Nil => SquareReport(World, got[1].index, got[1].res)
        /\ (given = RooksOnly /\ nops = 0) =>
              \A s \in BitIdx \ {0, 7} : ~GetSquare(World, s).occupied

\* GetSquare has answered for a square two kinds stand on, after a change to the Board
C6_Witness ==
    /\ pc = "ready"
    /\ nops > 0
    /\ got # Nil
    /\ got[1].res.occupied
    /\ Cardinality({ k \in DOMAIN PositionsOf(World) : IsBitSet(PositionsOf(World)[k], got[1].index) }) > 1
    /\ got[1].res.piece[1].slot = 2

\* ------------------------------------------------------------------------
\* Properties of the bit calls (checked under SpecBitOps)
\* ------------------------------------------------------------------------

\* C7: from the empty bitboard, after SetBit(i): GetBit(i) is 1, IsBitSet(i)
\* is true, Population() is 1 and the board is not empty; a following
\* ToggleBit(i) or ClearBit(i) gives back the empty bitboard, population 0.
C7_SetThenUndo ==
    input = emptyBoard =>
        /\ trace = <<"SetBit">> =>
              /\ GetBit(bits, index) = 1
              /\ IsBitSet(bits, index)
              /\ Population(bits) = 1
              /\ bits # emptyBoard
        /\ trace \in {<<"SetBit", "ToggleBit">>, <<"SetBit", "ClearBit">>} =>
              /\ bits = emptyBoard
              /\ Population(bits) = 0

\* The top bit of the empty board has been set and cleared again
C7_Witness ==
    /\ input = emptyBoard
    /\ index = 63
    /\ trace = <<"SetBit", "ClearBit">>

\* ------------------------------------------------------------------------
\* Properties of the transforms and of Population (checked under SpecTransforms)
\* ------------------------------------------------------------------------

\* The number of indices in 0..63 whose bit is set in b
BitCount(b) == Cardinality({ i \in BitIdx : i \in b })

\* C8: Population, by its SWAR steps in 64-bit arithmetic, is the number of
\* set bits of the board it is called on, 0 for the empty and 64 for the full board.
C8_PopulationCountsBits ==
    /\ count # Nil => count[1] = BitCount(bits)
    /\ (count # Nil /\ bits = emptyBoard) => count[1] = 0
    /\ (count # Nil /\ bits = fullBoard) => count[1] = 64

\* Population has been called on a flipped all-but-one board
C8_Witness ==
    /\ Len(trace) = 2
    /\ trace[2] = "Population"
    /\ input \in CoSingletons
    /\ bits # input
    /\ count = <<63>>

\* The bit of square (x, y)
SquareBit(x, y) == y * 8 + x

VerticalImage(x, y) == SquareBit(x, 7 - y)

HorizontalImage(x, y) == SquareBit(7 - x, y)

A1H8Image(x, y) == SquareBit(y, x)

A8H1Image(x, y) == SquareBit(7 - y, 7 - x)

\* The board whose squares are the images of the squares of b
Mirror(b, Image(_, _)) == { Image(i % 8, i \div 8) : i \in b }

\* C9: each flip is its reflection of the 64 squares, (x, y) being bit y*8+x:
\* FlipVertical (x, 7-y), FlipHorizontal (7-x, y), FlipDiagonalA1H8 (y, x),
\* FlipDiagonalA8H1 (7-y, 7-x); the flips of 0x1e2222120e0a1222 are the test
\* fixtures, each of population 19.
C9_FlipsAreReflections ==
    /\ trace = <<"FlipVertical">> => bits = Mirror(input, VerticalImage)
    /\ trace = <<"FlipHorizontal">> => bits = Mirror(input, HorizontalImage)
    /\ trace = <<"FlipDiagonalA1H8">> => bits = Mirror(input, A1H8Image)
    /\ trace = <<"FlipDiagonalA8H1">> => bits = Mirror(input, A8H1Image)
    /\ input = letterR =>
          /\ trace = <<"FlipVertical">> => bits = rVertical /\ Population(bits) = 19
          /\ trace = <<"FlipHorizontal">> => bits = rHorizontal /\ Population(bits) = 19
          /\ trace = <<"FlipDiagonalA1H8">> => bits = rA1H8 /\ Population(bits) = 19
          /\ trace = <<"FlipDiagonalA8H1">> => bits = rA8H1 /\ Population(bits) = 19

\* The letter R has been flipped about a8-h1
C9_Witness ==
    /\ input = letterR
    /\ trace = <<"FlipDiagonalA8H1">>
    /\ bits = rA8H1
    /\ bits # input

Flips == {"FlipVertical", "FlipHorizontal", "FlipDiagonalA1H8", "FlipDiagonalA8H1"}

\* C10: each of the four flips, applied twice, gives back the board it was
\* applied to.
C10_FlipsAreInvolutions ==
    (Len(trace) = 2 /\ trace[1] \in Flips /\ trace[2] = trace[1]) => bits = input

\* The letter R has been flipped about a1-h8 twice
C10_Witness ==
    /\ input = letterR
    /\ trace = <<"FlipDiagonalA1H8", "FlipDiagonalA1H8">>
    /\ bits = letterR

\* ------------------------------------------------------------------------
\* Properties of the rotations (checked under SpecRotations)
\* ------------------------------------------------------------------------

\* C11: Rotate90 applied twice gives Rotate180 of the board it started from,
\* applied four times gives back that board; Rotate90 after Rotate270 and
\* Rotate270 after Rotate90 give back the board too.
C11_RotationsCompose ==
    /\ trace = <<"Rotate90", "Rotate90">> => bits = Rotate180(input)
    /\ trace = <<"Rotate90", "Rotate90", "Rotate90", "Rotate90">> => bits = input
    /\ trace = <<"Rotate270", "Rotate90">> => bits = input
    /\ trace = <<"Rotate90", "Rotate270">> => bits = input

\* The letter R has been turned a quarter four times, and was not the same
\* board after the first, second and third turn
C11_Witness ==
    /\ input = letterR
    /\ trace = <<"Rotate90", "Rotate90", "Rotate90", "Rotate90">>
    /\ bits = letterR
    /\ Rotate90(letterR) # letterR
    /\ Rotate180(letterR) # letterR
    /\ Rotate270(letterR) # letterR

\* ------------------------------------------------------------------------
\* Properties of the coordinate conversions (checked under SpecCoords)
\* ------------------------------------------------------------------------

\* The letters of the files and the digits of the ranks, in board order
FileLetters == <<"a", "b", "c", "d", "e", "f", "g", "h">>

RankDigits == <<"1", "2", "3", "4", "5", "6", "7", "8">>

\* C12: for every bit index i in 0..63, CartesianToBit of BitToCartesian(i)
\* is i and AlgebraicToBit of BitToAlgebraic(i) is i, BitToAlgebraic(i) being
\* the file letter of i mod 8 followed by the rank digit (i div 8) + 1.
C12_CoordinateRoundTrips ==
    /\ trace = <<"BitToCartesian", "CartesianToBit">> => coord[1].val = index
    /\ trace = <<"BitToAlgebraic", "AlgebraicToBit">> => coord[1].val = index
    /\ trace = <<"BitToAlgebraic">> =>
          coord[1].val = <<FileLetters[(index % 8) + 1], RankDigits[(index \div 8) + 1]>>

\* h8, the last square, has gone to algebraic notation and back
C12_Witness ==
    /\ index = 63
    /\ trace = <<"BitToAlgebraic", "AlgebraicToBit">>
    /\ coord = <<[form |-> "bit", val |-> 63]>>
    /\ BitToAlgebraic(63) = <<"h", "8">>

\* ------------------------------------------------------------------------
\* Properties of the Cartesian and algebraic calls (checked under SpecVariants)
\* ------------------------------------------------------------------------

\* The Board and its memory after the step
WorldAfter == [mem |-> mem', board |-> board'[1]]

\* The Cartesian coordinates and the algebraic name of every square
CartesianOf == [s \in BitIdx |-> BitToCartesian(s)]

AlgebraicOf == [s \in BitIdx |-> BitToAlgebraic(s)]

CartesianNames == {"PlacePieceCartesian", "RemovePieceCartesian", "MovePieceCartesian"}

\* The squares whose Cartesian coordinates, or whose algebraic name, are a
SquaresOf(name, a) ==
    IF name \in CartesianNames
    THEN { s \in BitIdx : CartesianOf[s] = a }
    ELSE { s \in BitIdx : AlgebraicOf[s] = a }

\* What the bit-indexed form named by the variant name leaves of w
BitIndexed(name, w, k, f, t) ==
    IF name \in {"PlacePieceCartesian", "PlacePieceAlgebraic"} THEN PlacePiece(w, k, t)
    ELSE IF name \in {"RemovePieceCartesian", "RemovePieceAlgebraic"} THEN RemovePiece(w, k, f)
    ELSE MovePiece(w, k, f, t)

\* C13: a Cartesian or algebraic call of place, remove or move, made with
\* BitToCartesian or BitToAlgebraic of the squares f and t, leaves Positions
\* and Occupied exactly as PlacePiece(k, t), RemovePiece(k, f) or
\* MovePiece(k, f, t) on the same Board would.
C13_VariantsAsBitIndexed ==
    [][nops' = nops + 1 =>
          LET c == call'[1]
              from == SquaresOf(c.name, c.args[1])
              to == SquaresOf(c.name, c.args[Len(c.args)])
          IN /\ from # {}
             /\ to # {}
             /\ \A f \in from, t \in to : WorldAfter = BitIndexed(c.name, World, c.piece, f, t)]_vars

\* A king has been moved by name from e2 to e4 on the starting position,
\* where the sixth board holds the pawns of the second rank, after another
\* call; a Cartesian move from a square to itself has been made too
C13_Witness ==
    /\ pc = "ready"
    /\ len(given) = 0
    /\ nops = 2
    /\ call = <<[name |-> "MovePieceAlgebraic", piece |-> 5, args |-> <<<<"e", "2">>, <<"e", "4">>>>]>>
    /\ IsBitSet(PositionsOf(World)[5], 28)
    /\ ~IsBitSet(PositionsOf(World)[5], 12)
    /\ IsBitSet(board[1].Occupied, 28)
    /\ ~IsBitSet(board[1].Occupied, 12)

\* ------------------------------------------------------------------------
\* Properties of MovePiece beside a reader (checked under SpecConcurrent)
\* ------------------------------------------------------------------------

\* The board of the kind being moved, now and when MovePiece was called
MovedBoard == PositionsOf(World)[mover[1].piece]

MovedBoardBefore == PositionsOf(mover[1].before)[mover[1].piece]

\* GetSquare was called and returned between the remove and the place of
\* the MovePiece call in progress
ReadBetween ==
    /\ got # Nil
    /\ got[1].began = <<nops, 2>>
    /\ got[1].ended = <<nops, 2>>

\* C14: MovePiece(k, from, to) removes, then places. Between the two the
\* piece is on neither square (bit from clear in board k and in Occupied,
\* bit to as it was), and a GetSquare made then reports its origin
\* unoccupied and, at a target the kind was not on, no piece of board k. When
\* the call has returned, bit to is set and, for from # to, bit from clear in
\* board k, as the call made in one step leaves them.
C14_MoveIsRemoveThenPlace ==
    mover # Nil =>
        LET m == mover[1]
        IN /\ m.step = 2 =>
                  /\ ~IsBitSet(MovedBoard, m.from)
                  /\ ~IsBitSet(board[1].Occupied, m.from)
                  /\ m.to # m.from => (IsBitSet(MovedBoard, m.to) <=> IsBitSet(MovedBoardBefore, m.to))
                  /\ (ReadBetween /\ got[1].index = m.from) =>
                         /\ ~got[1].res.occupied
                         /\ got[1].res.piece = Nil
                  /\ (ReadBetween /\ got[1].index = m.to /\ ~IsBitSet(MovedBoardBefore, m.to)) =>
                         \/ got[1].res.piece = Nil
                         \/ got[1].res.piece[1].slot # m.piece
           /\ m.step = 4 =>
                  /\ IsBitSet(MovedBoard, m.to)
                  /\ m.from # m.to => ~IsBitSet(MovedBoard, m.from)
                  /\ World = MovePiece(m.before, m.piece, m.from, m.to)

\* On the starting position the move of board 5 from e2 to e4 has removed and
\* not yet placed: the kind was on e2, is on neither square now, and a
\* GetSquare made meanwhile has reported e2 unoccupied
C14_Witness ==
    /\ len(given) = 0
    /\ mover # Nil
    /\ mover[1].piece = 5
    /\ mover[1].from = 12
    /\ mover[1].to = 28
    /\ mover[1].step = 2
    /\ IsBitSet(MovedBoardBefore, 12)
    /\ ~IsBitSet(MovedBoard, 12)
    /\ ~IsBitSet(MovedBoard, 28)
    /\ ReadBetween
    /\ got[1].index = 12
    /\ ~got[1].res.occupied

\* ------------------------------------------------------------------------
\* Occupied and the scan of GetSquare (checked under Spec)
\* ------------------------------------------------------------------------

\* The squares whose bit is set in Occupied
OccupiedSquares == { s \in BitIdx : IsBitSet(board[1].Occupied, s) }

\* C15: on a Board NewBoard returned, after any completed place, remove and
\* move calls, every square set in Occupied is set in at least one of the 12
\* boards of Positions; so GetSquare on such a square finds a board in its
\* scan, and a GetSquare that reports occupied returns a piece.
C15_OccupiedWithinUnion ==
    HasBoard =>
        /\ And(board[1].Occupied, Not(Union(PositionsOf(World)))) = Zero
        /\ \A s \in OccupiedSquares : \E k \in DOMAIN PositionsOf(World) : IsBitSet(PositionsOf(World)[k], s)
        /\ \A s \in OccupiedSquares :
               LET r == GetSquare(World, s)
               IN r.occupied /\ r.piece # Nil
        /\ (got # Nil /\ got[1].res.occupied) => got[1].res.piece # Nil
        /\ (got # Nil /\ got[1].index \in OccupiedSquares) => got[1].res.occupied

\* After a remove, Occupied has fewer squares than the boards together, and
\* GetSquare has found a piece on a square still set in it
C15_Witness ==
    /\ pc = "ready"
    /\ nops > 0
    /\ board[1].Occupied # Union(PositionsOf(World))
    /\ got # Nil
    /\ got[1].index \in OccupiedSquares
    /\ got[1].res.occupied
    /\ got[1].res.piece # Nil

====
